---- MODULE Spec2Model ----
(***************************************************************************)
(* Model of app.py: a Streamlit script that reads three sliders, derives   *)
(* the pipe's middle and bottom depth and the water-pipe gap, and draws a  *)
(* cross-section with depth arrows and a measurement summary.              *)
(*                                                                         *)
(* Every length is an integer number of millimetres, so the slider step    *)
(* 0.1 m is 100, and halves of slider values (pipe_diameter/2,             *)
(* water_pipe_gap/2, depth/2 for the label anchors) stay integral or are   *)
(* kept doubled where noted.  Arithmetic is exact decimal arithmetic; the  *)
(* binary rounding of Python floats is not modelled.                       *)
(*                                                                         *)
(* Streamlit re-runs the whole script, top to bottom, on every widget      *)
(* change and on a manual rerun; each action below is one such run.        *)
(***************************************************************************)
EXTENDS Integers, Sequences, FiniteSets

VARIABLES
    water_table_depth,   \* slider value, mm (main, line 13)
    pipe_top_depth,      \* slider value, mm (main, line 14)
    pipe_diameter,       \* slider value, mm (main, line 15)
    pipe_middle_depth,   \* derived in main, line 18
    pipe_bottom_depth,   \* derived in main, line 19
    water_pipe_gap,      \* derived in main, line 22
    rng_state,           \* state of numpy's global generator, kept across runs
    ground_noise,        \* the np.random.randn draw of this run (line 39)
    water_line,          \* ax.axhline + fill_between (lines 44-45)
    water_triangle,      \* the triangle marker and its text (lines 48-57)
    circle,              \* the pipe (lines 60-63)
    depth_arrows,        \* the four depth arrows and their texts (lines 75-97)
    gap_arrow,           \* the gap arrow and text, a set of 0 or 1 records (lines 100-106)
    metrics,             \* the six st.metric calls (lines 130-143)
    first_render,        \* history: inputs and derived values of the first run
    repeats_first        \* history: a later run with the inputs of the first run

vars == << water_table_depth, pipe_top_depth, pipe_diameter, pipe_middle_depth,
           pipe_bottom_depth, water_pipe_gap, rng_state, ground_noise, water_line,
           water_triangle, circle, depth_arrows, gap_arrow, metrics, first_render,
           repeats_first >>

----------------------------------------------------------------------------
(* Bounds of the model *)

\* a slider change moves the handle by at most MaxJump steps in one run
MaxJump == 1
\* numpy's global generator has MaxNoise + 1 states, one draw each
MaxNoise == 1

----------------------------------------------------------------------------
(* Program constants, in millimetres *)

SliderStep == 100

WaterMin == 1000
WaterMax == 10000
WaterDefault == 5000

TopMin == 500
TopMax == 9000
TopDefault == 3000

DiameterMin == 100
DiameterMax == 2000
DiameterDefault == 500

ground_width == 10000
\* mutant: the depth axis ends where the water table slider ends
max_depth_at_slider_end == WaterMax
max_depth == 12000
\* ax.set_ylim(max_depth, -1): the upper edge of the depth axis
min_depth == -1000

triangle_size == 400

water_arrow_x == 1500
pipe_top_arrow_x == 3000
pipe_middle_arrow_x == 4500
pipe_bottom_arrow_x == 6000
gap_arrow_x == 8000

\* the texts of the arrows sit 0.2 to the right of the arrow
LabelOffset == 200
\* the text of the triangle sits 0.2 above it
TriangleTextGap == 200
NoiseScale == 50

----------------------------------------------------------------------------
(* The sliders *)

\* the values a slider at cur can be moved to in one change
SliderMoves(lo, hi, cur) ==
    { v \in { cur + k * SliderStep : k \in (-MaxJump)..MaxJump } :
        v # cur /\ v >= lo /\ v <= hi }

----------------------------------------------------------------------------
(* main: the derived measurements *)

\* mutant: the division by 2 is forgotten
PipeMiddleDepthUnhalved(top, diameter) == top + diameter

PipeMiddleDepth(top, diameter) == top + diameter \div 2

\* mutant: the line above it, copied unchanged
PipeBottomDepthHalved(top, diameter) == top + diameter \div 2

PipeBottomDepth(top, diameter) == top + diameter

\* mutant: the difference without the clamp
WaterPipeGapUnclamped(water, top) == water - top

\* mutant: the distance between water table and pipe top, whichever is deeper
WaterPipeGapAbsolute(water, top) == IF water > top THEN water - top ELSE top - water

WaterPipeGap(water, top) == IF water > top THEN water - top ELSE 0

----------------------------------------------------------------------------
(* f"{x:.1f}": x in mm to a number of tenths of a metre, rounded to the      *)
(* nearest tenth; a value exactly halfway between two tenths goes to the     *)
(* even digit, as Python's correctly rounded formatting does (3.25 -> 3.2).  *)

Format1f(x) ==
    LET t == x \div 100
        r == x % 100
    IN  IF r < 50 THEN t
        ELSE IF r > 50 THEN t + 1
        ELSE IF t % 2 = 0 THEN t ELSE t + 1

----------------------------------------------------------------------------
(* np.random.randn: the process-wide generator is seeded once, when numpy is *)
(* imported, and every run of the script draws from it and advances it.  The *)
(* 500 draws of one run are one draw here, symmetric about 0.                *)

RngStates == 0..MaxNoise

randn(state) == 2 * state - MaxNoise

RngAdvance(state) == (state + 1) % (MaxNoise + 1)

\* 0.05 * np.random.randn(...), the jitter of the ground curve
GroundNoise(state) == NoiseScale * randn(state)

----------------------------------------------------------------------------
(* create_visualization: the primitives that depend on the inputs *)

WaterLine(water) ==
    [ y |-> water, fill_top |-> water, fill_bottom |-> max_depth,
      x0 |-> 0, x1 |-> ground_width ]

triangle_x == (ground_width * 8) \div 10

WaterTriangle(water) ==
    [ tip    |-> << triangle_x, water - triangle_size \div 2 >>,
      left   |-> << triangle_x - triangle_size \div 2, water - triangle_size >>,
      right  |-> << triangle_x + triangle_size \div 2, water - triangle_size >>,
      text_x |-> triangle_x,
      text_y |-> water - triangle_size - TriangleTextGap ]

pipe_x == ground_width \div 2

\* mutant: the diameter passed where plt.Circle takes the radius
CircleOfDiameter(middle, diameter) ==
    [ cx |-> pipe_x, cy |-> middle, r |-> diameter ]

Circle(middle, diameter) ==
    [ cx |-> pipe_x, cy |-> middle, r |-> diameter \div 2 ]

ArrowNames == { "water", "pipe_top", "pipe_middle", "pipe_bottom" }

\* ax.annotate + ax.text: a double-headed arrow between xy and xytext, each
\* << x, depth >>, and its text, anchored at text_xy and showing tenths
Annotation(xy, xytext, text_xy, value) ==
    [ xy |-> xy, xytext |-> xytext, text_xy |-> text_xy,
      tenths |-> Format1f(value) ]

\* an arrow from depth 0 down to depth at offset x; the text sits at x + 0.2
\* and at depth/2
DepthArrow(x, depth) ==
    Annotation(<< x, 0 >>, << x, depth >>,
               << x + LabelOffset, depth \div 2 >>, depth)

DepthArrows(water, top, middle, bottom) ==
    [ n \in ArrowNames |->
        CASE n = "water"       -> DepthArrow(water_arrow_x, water)
          [] n = "pipe_top"    -> DepthArrow(pipe_top_arrow_x, top)
          [] n = "pipe_middle" -> DepthArrow(pipe_middle_arrow_x, middle)
          [] n = "pipe_bottom" -> DepthArrow(pipe_bottom_arrow_x, bottom) ]

\* mutant: the arrow is drawn for a gap of 0 too
GapArrowAlways(water, top, gap) ==
    IF gap >= 0
    THEN { Annotation(<< gap_arrow_x, top >>, << gap_arrow_x, water >>,
                      << gap_arrow_x + LabelOffset, top + gap \div 2 >>, gap) }
    ELSE {}

GapArrow(water, top, gap) ==
    IF gap > 0
    THEN { Annotation(<< gap_arrow_x, top >>, << gap_arrow_x, water >>,
                      << gap_arrow_x + LabelOffset, top + gap \div 2 >>, gap) }
    ELSE {}

Metric(label, x) ==
    [ label |-> label, kind |-> "metres", tenths |-> Format1f(x) ]

\* mutant: the number is shown for a gap of 0 too
GapMetricAlways(gap) ==
    IF gap >= 0
    THEN Metric("Water-Pipe Gap", gap)
    ELSE [ label |-> "Water-Pipe Gap", kind |-> "Pipe is below water table",
           tenths |-> 0 ]

GapMetric(gap) ==
    IF gap > 0
    THEN Metric("Water-Pipe Gap", gap)
    ELSE [ label |-> "Water-Pipe Gap", kind |-> "Pipe is below water table",
           tenths |-> 0 ]

Metrics(water, top, middle, bottom, diameter, gap) ==
    << Metric("Water Table Depth", water),
       Metric("Pipe Top Depth", top),
       Metric("Pipe Middle Depth", middle),
       Metric("Pipe Bottom Depth", bottom),
       Metric("Pipe Diameter", diameter),
       GapMetric(gap) >>

\* one call of create_visualization: everything it draws
create_visualization(water, top, middle, bottom, diameter, gap) ==
    /\ ground_noise' = GroundNoise(rng_state)
    /\ rng_state' = RngAdvance(rng_state)
    /\ water_line' = WaterLine(water)
    /\ water_triangle' = WaterTriangle(water)
    /\ circle' = Circle(middle, diameter)
    /\ depth_arrows' = DepthArrows(water, top, middle, bottom)
    /\ gap_arrow' = GapArrow(water, top, gap)
    /\ metrics' = Metrics(water, top, middle, bottom, diameter, gap)

\* mutant: the depths are measured from the jittered ground surface
main_from_ground_surface(water, top, diameter) ==
    /\ water_table_depth' = water
    /\ pipe_top_depth' = top
    /\ pipe_diameter' = diameter
    /\ pipe_middle_depth' = PipeMiddleDepth(top, diameter) - GroundNoise(rng_state)
    /\ pipe_bottom_depth' = PipeBottomDepth(top, diameter) - GroundNoise(rng_state)
    /\ water_pipe_gap' = WaterPipeGap(water, top)
    /\ create_visualization(water, top,
                            PipeMiddleDepth(top, diameter) - GroundNoise(rng_state),
                            PipeBottomDepth(top, diameter) - GroundNoise(rng_state),
                            diameter, WaterPipeGap(water, top))

\* one run of the script with the sliders at (water, top, diameter)
main(water, top, diameter) ==
    /\ water_table_depth' = water
    /\ pipe_top_depth' = top
    /\ pipe_diameter' = diameter
    /\ pipe_middle_depth' = PipeMiddleDepth(top, diameter)
    /\ pipe_bottom_depth' = PipeBottomDepth(top, diameter)
    /\ water_pipe_gap' = WaterPipeGap(water, top)
    /\ create_visualization(water, top, PipeMiddleDepth(top, diameter),
                            PipeBottomDepth(top, diameter), diameter,
                            WaterPipeGap(water, top))

\* a run of the script, and the history of the session
Run(water, top, diameter) ==
    /\ main(water, top, diameter)
    /\ first_render' = first_render
    /\ repeats_first' = ( /\ water = first_render.water
                          /\ top = first_render.top
                          /\ diameter = first_render.diameter )

Snapshot(water, top, diameter, middle, bottom, gap) ==
    [ water |-> water, top |-> top, diameter |-> diameter,
      middle |-> middle, bottom |-> bottom, gap |-> gap ]

----------------------------------------------------------------------------
(* The state machine *)

Init ==
    /\ water_table_depth = WaterDefault
    /\ pipe_top_depth = TopDefault
    /\ pipe_diameter = DiameterDefault
    /\ pipe_middle_depth = PipeMiddleDepth(TopDefault, DiameterDefault)
    /\ pipe_bottom_depth = PipeBottomDepth(TopDefault, DiameterDefault)
    /\ water_pipe_gap = WaterPipeGap(WaterDefault, TopDefault)
    /\ \E seed \in RngStates :
          /\ ground_noise = GroundNoise(seed)
          /\ rng_state = RngAdvance(seed)
    /\ water_line = WaterLine(WaterDefault)
    /\ water_triangle = WaterTriangle(WaterDefault)
    /\ circle = Circle(pipe_middle_depth, DiameterDefault)
    /\ depth_arrows = DepthArrows(WaterDefault, TopDefault, pipe_middle_depth,
                                  pipe_bottom_depth)
    /\ gap_arrow = GapArrow(WaterDefault, TopDefault, water_pipe_gap)
    /\ metrics = Metrics(WaterDefault, TopDefault, pipe_middle_depth,
                         pipe_bottom_depth, DiameterDefault, water_pipe_gap)
    /\ first_render = Snapshot(water_table_depth, pipe_top_depth, pipe_diameter,
                               pipe_middle_depth, pipe_bottom_depth, water_pipe_gap)
    /\ repeats_first = FALSE

SetWaterTableDepth ==
    \E v \in SliderMoves(WaterMin, WaterMax, water_table_depth) :
        Run(v, pipe_top_depth, pipe_diameter)

SetPipeTopDepth ==
    \E v \in SliderMoves(TopMin, TopMax, pipe_top_depth) :
        Run(water_table_depth, v, pipe_diameter)

SetPipeDiameter ==
    \E v \in SliderMoves(DiameterMin, DiameterMax, pipe_diameter) :
        Run(water_table_depth, pipe_top_depth, v)

Rerun ==
    Run(water_table_depth, pipe_top_depth, pipe_diameter)

Next ==
    \/ SetWaterTableDepth
    \/ SetPipeTopDepth
    \/ SetPipeDiameter
    \/ Rerun

Spec == Init /\ [][Next]_vars


----------------------------------------------------------------------------
(* Properties *)

Max(a, b) == IF a >= b THEN a ELSE b

\* the pipe's position relative to the water table
EntirelyAbove == pipe_bottom_depth <= water_table_depth
PartlySubmerged ==
    pipe_top_depth < water_table_depth /\ water_table_depth < pipe_bottom_depth
TopAtOrBelowWater == pipe_top_depth >= water_table_depth

\* C1: the gap is max(0, water_table_depth - pipe_top_depth): never negative,
\* 0 whenever the pipe top is at or below the water table (equality
\* included), and the difference whenever the water table is deeper.
C1_GapIsClampedDifference ==
    /\ water_pipe_gap = Max(0, water_table_depth - pipe_top_depth)
    /\ water_pipe_gap >= 0
    /\ (pipe_top_depth >= water_table_depth => water_pipe_gap = 0)
    /\ (water_table_depth > pipe_top_depth
          => water_pipe_gap = water_table_depth - pipe_top_depth)

\* C1 witness: scenario 3, water = 5.0, top = 5.0, diameter = 1.0, gap 0
C1_Witness ==
    /\ water_table_depth = 5000
    /\ pipe_top_depth = 5000
    /\ pipe_diameter = 1000
    /\ water_pipe_gap = 0

\* C2 as stated: the gap is the separation when the pipe is entirely above
\* the water table and is 0 in every other case, a partly submerged pipe
\* included.
C2_GapZeroUnlessEntirelyAbove ==
    /\ (EntirelyAbove => water_pipe_gap = water_table_depth - pipe_top_depth)
    /\ (~EntirelyAbove => water_pipe_gap = 0)

\* C2 amended: the gap is decided by the pipe top alone.  It is 0 exactly
\* when the pipe top is at or below the water table; for a pipe entirely
\* above the water table it is the separation, at least one diameter; for a
\* partly submerged pipe it is the separation too, positive and less than
\* one diameter.
C2_GapDecidedByPipeTop ==
    /\ (water_pipe_gap = 0 <=> TopAtOrBelowWater)
    /\ (EntirelyAbove
          => /\ water_pipe_gap = water_table_depth - pipe_top_depth
             /\ water_pipe_gap >= pipe_diameter)
    /\ (PartlySubmerged
          => /\ water_pipe_gap = water_table_depth - pipe_top_depth
             /\ water_pipe_gap > 0
             /\ water_pipe_gap < pipe_diameter)

\* C2 witness: a partly submerged pipe with a positive gap
C2_Witness ==
    /\ PartlySubmerged
    /\ water_pipe_gap > 0
    /\ gap_arrow # {}

\* the arrow's segment and the disc of the pipe have a point in common: the
\* point of the segment nearest to the centre is within the radius
ArrowHitsCircle(a, c) ==
    LET x    == a.xy[1]
        ylo  == IF a.xy[2] <= a.xytext[2] THEN a.xy[2] ELSE a.xytext[2]
        yhi  == IF a.xy[2] <= a.xytext[2] THEN a.xytext[2] ELSE a.xy[2]
        near == IF c.cy < ylo THEN ylo ELSE IF c.cy > yhi THEN yhi ELSE c.cy
        dx   == x - c.cx
        dy   == near - c.cy
    IN  dx * dx + dy * dy <= c.r * c.r

ArrowTarget(n) ==
    CASE n = "water"       -> water_table_depth
      [] n = "pipe_top"    -> pipe_top_depth
      [] n = "pipe_middle" -> pipe_middle_depth
      [] n = "pipe_bottom" -> pipe_bottom_depth

\* C3 as stated: each depth arrow runs from depth 0 to its target depth at
\* an offset of its own, and none of them touches the pipe's circle.
C3_DepthArrowsAvoidPipe ==
    /\ \A n \in ArrowNames :
          /\ depth_arrows[n].xy[2] = 0
          /\ depth_arrows[n].xytext[2] = ArrowTarget(n)
          /\ depth_arrows[n].xy[1] = depth_arrows[n].xytext[1]
    /\ \A n, m \in ArrowNames :
          n # m => depth_arrows[n].xy[1] # depth_arrows[m].xy[1]
    /\ \A n \in ArrowNames : ~ArrowHitsCircle(depth_arrows[n], circle)

\* C4: the gap arrow and its label are drawn exactly when the gap is
\* positive, never when the pipe top is at or below the water table; the
\* arrow runs from the pipe top to the water table at one offset, so it is
\* as long as the gap, and the label sits at its midpoint depth.
C4_GapArrowIffPositiveGap ==
    /\ (gap_arrow # {} <=> water_pipe_gap > 0)
    /\ (pipe_top_depth >= water_table_depth => gap_arrow = {})
    /\ Cardinality(gap_arrow) <= 1
    /\ \A a \in gap_arrow :
          /\ a.xy = << gap_arrow_x, pipe_top_depth >>
          /\ a.xytext = << gap_arrow_x, water_table_depth >>
          /\ a.xy[1] = a.xytext[1]
          /\ a.xytext[2] - a.xy[2] = water_pipe_gap
          /\ 2 * a.text_xy[2] = a.xy[2] + a.xytext[2]
          /\ 2 * a.text_xy[2] = 2 * pipe_top_depth + water_pipe_gap

\* C4 witness: an arrow over the smallest gap, one slider step
C4_Witness ==
    /\ water_pipe_gap = SliderStep
    /\ \E a \in gap_arrow : a.xytext[2] - a.xy[2] = SliderStep

C6_MiddleIsMeanOfTopAndBottom ==
    /\ 2 * pipe_middle_depth = pipe_top_depth + pipe_bottom_depth
    /\ pipe_top_depth < pipe_middle_depth
    /\ pipe_middle_depth < pipe_bottom_depth

\* C6 witness: the thinnest pipe, whose middle is 0.05 below its top
C6_Witness ==
    /\ pipe_diameter = DiameterMin
    /\ pipe_middle_depth = pipe_top_depth + DiameterMin \div 2
    /\ pipe_middle_depth % SliderStep # 0

\* C7: the pipe is a circle of radius pipe_diameter/2 centred at
\* (ground_width/2, pipe_middle_depth), so its topmost point is at
\* pipe_top_depth and its lowest point at pipe_bottom_depth.
C7_CircleSpansTopToBottom ==
    /\ 2 * circle.r = pipe_diameter
    /\ 2 * circle.cx = ground_width
    /\ circle.cy = pipe_middle_depth
    /\ circle.cy - circle.r = pipe_top_depth
    /\ circle.cy + circle.r = pipe_bottom_depth

\* C7 witness: diameter 0.5 and top 3.0 (under a water table at 2.0) give
\* radius 0.25 and centre depth 3.25
C7_Witness ==
    /\ pipe_diameter = 500
    /\ pipe_top_depth = 3000
    /\ water_table_depth = 2000
    /\ circle.r = 250
    /\ circle.cy = 3250

MetricLabels ==
    << "Water Table Depth", "Pipe Top Depth", "Pipe Middle Depth",
       "Pipe Bottom Depth", "Pipe Diameter", "Water-Pipe Gap" >>

\* C8: the summary always has the six labeled metrics; the sixth shows the
\* number exactly when the gap is positive and the message "Pipe is below
\* water table" otherwise, that is exactly when the pipe top is at or below
\* the water table; so the number is shown in exactly the renders in which
\* the gap arrow is drawn.
C8_SixMetricsGapOrMessage ==
    /\ Len(metrics) = 6
    /\ \A k \in 1..6 : metrics[k].label = MetricLabels[k]
    /\ \A k \in 1..5 : metrics[k].kind = "metres"
    /\ (metrics[6].kind = "metres" <=> water_pipe_gap > 0)
    /\ (metrics[6].kind # "metres"
          => metrics[6].kind = "Pipe is below water table")
    /\ (metrics[6].kind = "Pipe is below water table"
          <=> pipe_top_depth >= water_table_depth)
    /\ (metrics[6].kind = "metres" <=> gap_arrow # {})

\* C8 witness: the pipe top exactly at the water table: message, no arrow
C8_Witness ==
    /\ pipe_top_depth = water_table_depth
    /\ metrics[6].kind = "Pipe is below water table"
    /\ gap_arrow = {}

SameInputs ==
    /\ water_table_depth' = water_table_depth
    /\ pipe_top_depth' = pipe_top_depth
    /\ pipe_diameter' = pipe_diameter

SameDerived ==
    /\ pipe_middle_depth' = pipe_middle_depth
    /\ pipe_bottom_depth' = pipe_bottom_depth
    /\ water_pipe_gap' = water_pipe_gap

InputsOfFirstRender ==
    /\ water_table_depth = first_render.water
    /\ pipe_top_depth = first_render.top
    /\ pipe_diameter = first_render.diameter

DerivedOfFirstRender ==
    /\ pipe_middle_depth = first_render.middle
    /\ pipe_bottom_depth = first_render.bottom
    /\ water_pipe_gap = first_render.gap

InWindow(p) ==
    /\ 0 <= p[1] /\ p[1] <= ground_width
    /\ min_depth <= p[2] /\ p[2] <= max_depth

\* C10: every primitive that depends on the inputs lies inside the visible
\* window: the water table line and its triangle, the pipe circle (bottom
\* at most 11 < max_depth, horizontal extent within [4, 6]), and the end
\* points of the depth arrows and of the gap arrow; and the water fill from
\* water_table_depth down to max_depth is never empty or inverted.
C10_PrimitivesInsideWindow ==
    /\ InWindow(<< water_line.x0, water_line.y >>)
    /\ InWindow(<< water_line.x1, water_line.y >>)
    /\ water_line.fill_top = water_table_depth
    /\ water_line.fill_bottom = max_depth
    /\ water_line.fill_top < water_line.fill_bottom
    /\ InWindow(water_triangle.tip)
    /\ InWindow(water_triangle.left)
    /\ InWindow(water_triangle.right)
    /\ InWindow(<< circle.cx - circle.r, circle.cy - circle.r >>)
    /\ InWindow(<< circle.cx + circle.r, circle.cy + circle.r >>)
    /\ circle.cy + circle.r <= 11000
    /\ circle.cy + circle.r < max_depth
    /\ circle.cx - circle.r >= 4000
    /\ circle.cx + circle.r <= 6000
    /\ \A n \in ArrowNames :
          InWindow(depth_arrows[n].xy) /\ InWindow(depth_arrows[n].xytext)
    /\ \A a \in gap_arrow : InWindow(a.xy) /\ InWindow(a.xytext)

\* C10 witness: every slider at its maximum: water table at 10.0, pipe
\* bottom at 11.0, pipe 2.0 wide
C10_Witness ==
    /\ water_table_depth = WaterMax
    /\ pipe_top_depth = TopMax
    /\ pipe_diameter = DiameterMax
    /\ circle.cy + circle.r = 11000

====
